---------------------------- MODULE Spec2Model ----------------------------
(***************************************************************************)
(* Model of the transparent-md clinical reasoning system:                  *)
(*   - TransparentReasoningEngine  (src/src/core/clinical_reasoning.py)    *)
(*   - EvaluationMetrics           (src/src/evaluation/metrics.py)         *)
(*   - the DiReCT evaluation loop  (src/src/run_direct_evaluation.py)      *)
(*   - DiReCTIntegration           (src/src/integration/...)               *)
(*                                                                         *)
(* Python str values are sequences of one-character strings.  Floats are   *)
(* exact rationals [num, den]; den = 0 is NaN (0.0/0 of an empty mean).    *)
(* For criteria and risk-factor lists of up to four entries the float      *)
(* comparisons of match scores agree with the exact ones.                  *)
(***************************************************************************)
EXTENDS Integers, Sequences, FiniteSets, TLC

VARIABLES
    guidelines,   \* TransparentReasoningEngine.guidelines["guidelines"]
    loaded,       \* the corpus as json.load returned it at construction
    model,        \* EvaluationMetrics.model: text -> embedding
    op,           \* the operation that ran last
    arg,          \* its argument(s)
    ret,          \* its outcome: a return value or a raised error
    samples,      \* run_direct_evaluation: the sample files found
    results       \* run_direct_evaluation: results, one per processed sample

vars == <<guidelines, loaded, model, op, arg, ret, samples, results>>

(***************************************************************************)
(* Bounds of the model.                                                    *)
(***************************************************************************)
MaxCorpus == 2      \* guidelines in a corpus
MaxEvidence == 6    \* evidence items of a hand-built DiagnosticStep
ManyEvidence == 1000 \* evidence items of one very long DiagnosticStep
MaxSteps == 3       \* reasoning steps handed to evaluate_reasoning_structure
MaxSamples == 2     \* sample files of one DiReCT run

(***************************************************************************)
(* Python values.                                                          *)
(***************************************************************************)
\* An Optional[T] value is a sequence of at most one T.
None == <<>>
Some(x) == <<x>>
IsNone(o) == Len(o) = 0

\* bool(x) of a str, list or dict, and of an Optional one
Truthy(x) == Len(x) > 0
OptTruthy(o) == Len(o) > 0 /\ Len(o[1]) > 0

Rat(n, d) == [num |-> n, den |-> d]
IsNaN(x) == x.den = 0
RatEq(x, y) == ~IsNaN(x) /\ ~IsNaN(y) /\ x.num * y.den = y.num * x.den
RatLess(x, y) == ~IsNaN(x) /\ ~IsNaN(y) /\ x.num * y.den < y.num * x.den

RECURSIVE GCD(_, _)
GCD(a, b) == IF b = 0 THEN a ELSE GCD(b, a % b)

Abs(n) == IF n < 0 THEN -n ELSE n

\* the fraction n / d in lowest terms; anything over zero is NaN
Reduced(n, d) ==
    IF d = 0 THEN Rat(0, 0)
    ELSE LET g == GCD(Abs(n), d) IN Rat(n \div g, d \div g)

RatAdd(x, y) == Reduced(x.num * y.den + y.num * x.den, x.den * y.den)
RatMul(x, y) == Reduced(x.num * y.num, x.den * y.den)

Min(a, b) == IF a < b THEN a ELSE b

UpperCase == <<"A", "B", "C", "D", "E", "F", "G", "H", "I", "J", "K", "L", "M", "N", "O", "P", "Q", "R", "S", "T", "U", "V", "W", "X", "Y", "Z">>
LowerCase == <<"a", "b", "c", "d", "e", "f", "g", "h", "i", "j", "k", "l", "m", "n", "o", "p", "q", "r", "s", "t", "u", "v", "w", "x", "y", "z">>

\* str.lower() of one ASCII character
LowerChar(c) ==
    IF \E i \in 1..Len(UpperCase) : UpperCase[i] = c
    THEN LowerCase[CHOOSE i \in 1..Len(UpperCase) : UpperCase[i] = c]
    ELSE c

\* str.lower()
lower(s) == [i \in 1..Len(s) |-> LowerChar(s[i])]

\* `sub in text` for two str values
Contains(text, sub) ==
    \E i \in 0..(Len(text) - Len(sub)) :
        \A j \in 1..Len(sub) : text[i + j] = sub[j]

RECURSIVE Concat(_)
Concat(ss) == IF ss = <<>> THEN <<>> ELSE Head(ss) \o Concat(Tail(ss))

\* sep.join(parts)
RECURSIVE Join(_, _)
Join(sep, parts) ==
    IF parts = <<>> THEN <<>>
    ELSE IF Len(parts) = 1 THEN parts[1]
    ELSE parts[1] \o sep \o Join(sep, Tail(parts))

DigitChars == <<"0", "1", "2", "3", "4", "5", "6", "7", "8", "9">>

\* repr() of a non-negative int
RECURSIVE IntRepr(_)
IntRepr(n) ==
    IF n < 10 THEN <<DigitChars[n + 1]>>
    ELSE IntRepr(n \div 10) \o <<DigitChars[(n % 10) + 1]>>

HasChar(s, c) == \E i \in 1..Len(s) : s[i] = c

\* repr() of a str of printable ASCII, newline included: CPython picks double
\* quotes when the text holds ' and no ", and escapes \ , the quote and \n.
StrRepr(s) ==
    LET quote == IF HasChar(s, "'") /\ ~HasChar(s, "\"") THEN "\"" ELSE "'"
        Esc(c) == IF c = "\\" THEN <<"\\", "\\">>
                  ELSE IF c = "\n" THEN <<"\\", "n">>
                  ELSE IF c = quote THEN <<"\\", c>>
                  ELSE <<c>>
    IN  <<quote>> \o Concat([i \in 1..Len(s) |-> Esc(s[i])]) \o <<quote>>

\* repr() of a Dict[str, str], held as the sequence of its items
DictRepr(d) ==
    <<"{">> \o
    Join(<<",", " ">>,
         [i \in 1..Len(d) |-> StrRepr(d[i].k) \o <<":", " ">> \o StrRepr(d[i].v)])
    \o <<"}">>

OptDictRepr(d) == IF IsNone(d) THEN <<"N", "o", "n", "e">> ELSE DictRepr(d[1])
OptStrRepr(s) == IF IsNone(s) THEN <<"N", "o", "n", "e">> ELSE StrRepr(s[1])

\* str(vignette.__dict__): the fields of ClinicalVignette in declaration order
VignetteStr(v) ==
    <<"{", "'", "p", "a", "t", "i", "e", "n", "t", "_", "i", "d", "'", ":", " ">> \o StrRepr(v.patient_id) \o
    <<",", " ", "'", "a", "g", "e", "'", ":", " ">> \o IntRepr(v.age) \o
    <<",", " ", "'", "g", "e", "n", "d", "e", "r", "'", ":", " ">> \o StrRepr(v.gender) \o
    <<",", " ", "'", "c", "h", "i", "e", "f", "_", "c", "o", "m", "p", "l", "a", "i", "n", "t", "'", ":", " ">> \o StrRepr(v.chief_complaint) \o
    <<",", " ", "'", "h", "i", "s", "t", "o", "r", "y", "_", "o", "f", "_", "p", "r", "e", "s", "e", "n", "t", "_", "i", "l", "l", "n", "e", "s", "s", "'", ":", " ">> \o
        StrRepr(v.history_of_present_illness) \o
    <<",", " ", "'", "p", "h", "y", "s", "i", "c", "a", "l", "_", "e", "x", "a", "m", "i", "n", "a", "t", "i", "o", "n", "'", ":", " ">> \o DictRepr(v.physical_examination) \o
    <<",", " ", "'", "l", "a", "b", "o", "r", "a", "t", "o", "r", "y", "_", "f", "i", "n", "d", "i", "n", "g", "s", "'", ":", " ">> \o DictRepr(v.laboratory_findings) \o
    <<",", " ", "'", "i", "m", "a", "g", "i", "n", "g", "_", "f", "i", "n", "d", "i", "n", "g", "s", "'", ":", " ">> \o OptDictRepr(v.imaging_findings) \o
    <<",", " ", "'", "a", "d", "d", "i", "t", "i", "o", "n", "a", "l", "_", "n", "o", "t", "e", "s", "'", ":", " ">> \o OptStrRepr(v.additional_notes) \o
    <<"}">>

(***************************************************************************)
(* Guidelines and cases the model draws its inputs from.                   *)
(***************************************************************************)
Guideline(id, title, criteria, risk) ==
    [id |-> id, title |-> title, criteria |-> criteria, risk_factors |-> risk]

sChestPain == <<"c", "h", "e", "s", "t", " ", "p", "a", "i", "n">>
sSmoking == <<"s", "m", "o", "k", "i", "n", "g">>

G1 == Guideline(<<"G", "1">>, <<"A", "C", "S">>,
                <<sChestPain, <<"s", "h", "o", "r", "t", "n", "e", "s", "s", " ", "o", "f", " ", "b", "r", "e", "a", "t", "h">>>>, <<sSmoking>>)
G2 == Guideline(<<"G", "2">>, <<"C", "O", "P", "D">>,
                <<<<"p", "a", "i", "n">>, <<"c", "o", "u", "g", "h">>>>, <<<<"S", "m", "o", "k", "i", "n", "g">>, <<"a", "g", "e">>>>)
G3 == Guideline(<<"G", "3">>, <<"C", "A", "D">>,
                <<<<"C", "h", "e", "s", "t", " ", "P", "a", "i", "n">>>>, <<sSmoking, <<"d", "i", "a", "b", "e", "t", "e", "s">>>>)
G4 == Guideline(<<"G", "4">>, <<"S", "c", "r", "e", "e", "n", "i", "n", "g">>, <<>>, <<sSmoking>>)
G5 == Guideline(<<"G", "5">>, <<"T", "r", "i", "a", "g", "e">>, <<<<"p", "a", "i", "n">>>>, <<>>)

GuidelinePool == {G1, G2, G3, G4, G5}

RECURSIVE SeqsUpTo(_, _)
SeqsUpTo(S, n) ==
    IF n = 0 THEN {<<>>}
    ELSE LET shorter == SeqsUpTo(S, n - 1)
         IN  shorter \cup {Append(s, x) : s \in shorter, x \in S}

Corpora == SeqsUpTo(GuidelinePool, MaxCorpus)

Item(k, v) == [k |-> k, v |-> v]

Vignette(pid, age, cc, hpi, pe, lab, img, notes) ==
    [patient_id |-> pid, age |-> age, gender |-> <<"F">>,
     chief_complaint |-> cc, history_of_present_illness |-> hpi,
     physical_examination |-> pe, laboratory_findings |-> lab,
     imaging_findings |-> img, additional_notes |-> notes]

V1 == Vignette(<<"P", "1">>, 54, <<"a", "c", "u", "t", "e", " ", "c", "h", "e", "s", "t", " ", "p", "a", "i", "n">>,
               <<"l", "o", "n", "g", " ", "s", "m", "o", "k", "i", "n", "g", " ", "h", "i", "s", "t", "o", "r", "y">>,
               <<Item(<<"b", "p">>, <<"1", "5", "0", "/", "9", "0">>)>>, <<>>, None, None)
V2 == Vignette(<<"P", "2">>, 7, <<"C", "h", "e", "s", "t", " ", "P", "a", "i", "n">>, <<"n", "o", "n", "e">>,
               <<>>, <<Item(<<"h", "b", "a", "1", "c">>, <<"h", "i", "g", "h">>)>>, None,
               Some(<<"S", "m", "o", "k", "i", "n", "g", ",", " ", "d", "i", "a", "b", "e", "t", "e", "s">>))
V3 == Vignette(<<"P", "3">>, 61, <<"c", "o", "u", "g", "h">>, <<"c", "h", "e", "s", "t", " ", "p", "a", "i", "n", "\n", "o", "n", " ", "e", "x", "e", "r", "t", "i", "o", "n">>,
               <<Item(<<"l", "u", "n", "g", "s">>, <<"c", "l", "e", "a", "r">>), Item(<<"h", "r">>, <<"8", "8">>)>>,
               <<Item(<<"c", "r", "p">>, <<"5">>)>>,
               Some(<<Item(<<"c", "x", "r">>, <<"n", "o", "r", "m", "a", "l">>)>>), None)
V4 == Vignette(<<"P", "4">>, 30, <<"f", "e", "v", "e", "r">>, <<"p", "a", "t", "i", "e", "n", "t", "'", "s", " ", "c", "o", "u", "g", "h">>,
               <<>>, <<>>, Some(<<>>), Some(<<>>))

Cases == {V1, V2, V3, V4}

\* str(vignette.__dict__).lower() of every case, tabulated
vignette_text == [v \in Cases |-> lower(VignetteStr(v))]

(***************************************************************************)
(* TransparentReasoningEngine                                              *)
(***************************************************************************)
\* mutant: the history text is not searched
criterion_met_chief_only(criterion, vignette) ==
    Contains(lower(vignette.chief_complaint), lower(criterion))

\* the test of one criterion: a case-insensitive substring of either text
criterion_met(criterion, vignette) ==
    \/ Contains(lower(vignette.chief_complaint), lower(criterion))
    \/ Contains(lower(vignette.history_of_present_illness), lower(criterion))

\* the test of one risk factor, against str(vignette.__dict__)
risk_factor_met(risk_factor, vignette) ==
    Contains(vignette_text[vignette], lower(risk_factor))

\* the loop over guideline["criteria"]
RECURSIVE criteria_met(_, _)
criteria_met(criteria, vignette) ==
    IF Len(criteria) = 0 THEN 0
    ELSE (IF criterion_met(Head(criteria), vignette) THEN 1 ELSE 0)
         + criteria_met(Tail(criteria), vignette)

\* the loop over guideline["risk_factors"]
RECURSIVE risk_factors_met(_, _)
risk_factors_met(risk_factors, vignette) ==
    IF Len(risk_factors) = 0 THEN 0
    ELSE (IF risk_factor_met(Head(risk_factors), vignette) THEN 1 ELSE 0)
         + risk_factors_met(Tail(risk_factors), vignette)

\* (criteria_met / total_criteria + risk_factors_met / total_risk_factors) / 2
match_score(n_criteria_met, total_criteria, n_risk_met, total_risk_factors) ==
    RatMul(RatAdd(Rat(n_criteria_met, total_criteria),
                  Rat(n_risk_met, total_risk_factors)),
           Rat(1, 2))

\* mutant: a score of exactly 0.5 counts as relevant
relevant_or_equal(score) == ~RatLess(score, Rat(1, 2))

\* match_score > 0.5
relevant(score) == RatLess(Rat(1, 2), score)

\* the match_score the loop body computes for one guideline
guideline_score(guideline, vignette) ==
    match_score(criteria_met(guideline.criteria, vignette),
                Len(guideline.criteria),
                risk_factors_met(guideline.risk_factors, vignette),
                Len(guideline.risk_factors))

\* the body of the loop over the corpus, for the guideline at index i: the
\* match results it appends.  pos is the identity of the guideline object.
match_one(gs, i, vignette) ==
    LET guideline == gs[i]
        total_criteria == Len(guideline.criteria)
        total_risk_factors == Len(guideline.risk_factors)
        score == guideline_score(guideline, vignette)
    IN  IF total_criteria > 0 /\ total_risk_factors > 0 /\ relevant(score)
        THEN <<[guideline |-> guideline, match_score |-> score, pos |-> i]>>
        ELSE <<>>

RECURSIVE match_loop(_, _, _)
match_loop(gs, i, vignette) ==
    IF i > Len(gs) THEN <<>>
    ELSE match_one(gs, i, vignette) \o match_loop(gs, i + 1, vignette)

Reverse(s) == [i \in 1..Len(s) |-> s[Len(s) + 1 - i]]

\* one insertion of a stable ascending sort by match_score
RECURSIVE InsertByScore(_, _)
InsertByScore(sorted, x) ==
    IF Len(sorted) = 0 THEN <<x>>
    ELSE IF RatLess(x.match_score, Head(sorted).match_score)
         THEN <<x>> \o sorted
         ELSE <<Head(sorted)>> \o InsertByScore(Tail(sorted), x)

RECURSIVE SortByScore(_)
SortByScore(s) ==
    IF Len(s) = 0 THEN <<>>
    ELSE InsertByScore(SortByScore(SubSeq(s, 1, Len(s) - 1)), s[Len(s)])

\* mutant: sort ascending, then reverse (equal scores swap their order)
sorted_then_reversed(matched) == Reverse(SortByScore(matched))

\* sorted(matched, key=match_score, reverse=True): CPython reverses the
\* list, sorts it stably in ascending order and reverses the result.
sorted_reverse(matched) == Reverse(SortByScore(Reverse(matched)))

match_guidelines(gs, vignette) == sorted_reverse(match_loop(gs, 1, vignette))

DiagnosticStep(n, reasoning, evidence, reference, confidence) ==
    [step_number |-> n, reasoning |-> reasoning,
     supporting_evidence |-> evidence, guideline_reference |-> reference,
     confidence_score |-> confidence]

\* [f"{k}: {v}" for k, v in d.items()]
items_evidence(d) == [i \in 1..Len(d) |-> d[i].k \o <<":", " ">> \o d[i].v]

findings_evidence(vignette) ==
    (IF Truthy(vignette.laboratory_findings)
     THEN items_evidence(vignette.laboratory_findings) ELSE <<>>)
    \o
    (IF OptTruthy(vignette.imaging_findings)
     THEN items_evidence(vignette.imaging_findings[1]) ELSE <<>>)

\* mutant: the guideline step is numbered 6
guideline_step_misnumbered(matched_guidelines) ==
    IF Truthy(matched_guidelines)
    THEN LET top_guideline == matched_guidelines[1].guideline
         IN  <<DiagnosticStep(6,
                   <<"A", "s", "s", "e", "s", "s", "m", "e", "n", "t", " ", "b", "a", "s", "e", "d", " ", "o", "n", " ">> \o top_guideline.title,
                   top_guideline.criteria,
                   Some(top_guideline.id),
                   matched_guidelines[1].match_score)>>
    ELSE <<>>

\* mutant: the guideline step is built from the last match, not the first
guideline_step_from_last(matched_guidelines) ==
    IF Truthy(matched_guidelines)
    THEN LET last == matched_guidelines[Len(matched_guidelines)]
         IN  <<DiagnosticStep(5,
                   <<"A", "s", "s", "e", "s", "s", "m", "e", "n", "t", " ", "b", "a", "s", "e", "d", " ", "o", "n", " ">> \o last.guideline.title,
                   last.guideline.criteria,
                   Some(last.guideline.id),
                   last.match_score)>>
    ELSE <<>>

\* mutant: without a match a placeholder fifth step is emitted
guideline_step_placeholder(matched_guidelines) ==
    IF Truthy(matched_guidelines)
    THEN LET top_guideline == matched_guidelines[1].guideline
         IN  <<DiagnosticStep(5,
                   <<"A", "s", "s", "e", "s", "s", "m", "e", "n", "t", " ", "b", "a", "s", "e", "d", " ", "o", "n", " ">> \o top_guideline.title,
                   top_guideline.criteria,
                   Some(top_guideline.id),
                   matched_guidelines[1].match_score)>>
    ELSE <<DiagnosticStep(5, <<"N", "o", " ", "g", "u", "i", "d", "e", "l", "i", "n", "e", " ", "m", "a", "t", "c", "h", "e", "d">>, <<>>, None,
                          Rat(0, 1))>>

\* step 5, appended when matched_guidelines is not empty
guideline_step(matched_guidelines) ==
    IF Truthy(matched_guidelines)
    THEN LET top_guideline == matched_guidelines[1].guideline
         IN  <<DiagnosticStep(5,
                   <<"A", "s", "s", "e", "s", "s", "m", "e", "n", "t", " ", "b", "a", "s", "e", "d", " ", "o", "n", " ">> \o top_guideline.title,
                   top_guideline.criteria,
                   Some(top_guideline.id),
                   matched_guidelines[1].match_score)>>
    ELSE <<>>

process_vignette(gs, vignette) ==
    LET matched_guidelines == match_guidelines(gs, vignette)
    IN  << DiagnosticStep(1,
               <<"I", "n", "i", "t", "i", "a", "l", " ", "a", "s", "s", "e", "s", "s", "m", "e", "n", "t", " ", "b", "a", "s", "e", "d", " ", "o", "n", " ", "c", "h", "i", "e", "f", " ", "c", "o", "m", "p", "l", "a", "i", "n", "t", ":", " ">>
                   \o vignette.chief_complaint,
               <<vignette.chief_complaint>>, None, Rat(9, 10)),
           DiagnosticStep(2,
               <<"A", "n", "a", "l", "y", "s", "i", "s", " ", "o", "f", " ", "h", "i", "s", "t", "o", "r", "y", " ", "o", "f", " ", "p", "r", "e", "s", "e", "n", "t", " ", "i", "l", "l", "n", "e", "s", "s", ":", " ">>
                   \o vignette.history_of_present_illness,
               <<vignette.history_of_present_illness>>, None, Rat(85, 100)),
           DiagnosticStep(3,
               <<"P", "h", "y", "s", "i", "c", "a", "l", " ", "e", "x", "a", "m", "i", "n", "a", "t", "i", "o", "n", " ", "f", "i", "n", "d", "i", "n", "g", "s", " ", "a", "n", "a", "l", "y", "s", "i", "s">>,
               items_evidence(vignette.physical_examination),
               None, Rat(8, 10)),
           DiagnosticStep(4,
               <<"A", "n", "a", "l", "y", "s", "i", "s", " ", "o", "f", " ", "l", "a", "b", "o", "r", "a", "t", "o", "r", "y", " ", "a", "n", "d", " ", "i", "m", "a", "g", "i", "n", "g", " ", "f", "i", "n", "d", "i", "n", "g", "s">>,
               findings_evidence(vignette), None, Rat(85, 100)) >>
        \o guideline_step(matched_guidelines)

\* mutant: the last guideline with the identifier wins, not the first
RECURSIVE find_criteria_last(_, _, _)
find_criteria_last(gs, i, reference) ==
    IF i > Len(gs) THEN <<>>
    ELSE LET later == find_criteria_last(gs, i + 1, reference)
         IN  IF later # <<>> THEN later
             ELSE IF gs[i].id = reference THEN gs[i].criteria
             ELSE <<>>

\* the loop of get_guideline_references from index i
RECURSIVE find_criteria(_, _, _)
find_criteria(gs, i, reference) ==
    IF i > Len(gs) THEN <<>>
    ELSE IF gs[i].id = reference THEN gs[i].criteria
    ELSE find_criteria(gs, i + 1, reference)

get_guideline_references(gs, diagnostic_step) ==
    IF ~OptTruthy(diagnostic_step.guideline_reference) THEN <<>>
    ELSE find_criteria(gs, 1, diagnostic_step.guideline_reference[1])

RatMin(x, y) == IF RatLess(y, x) THEN y ELSE x

\* mutant: the bonus for a guideline reference is not clamped
evaluate_confidence_unclamped(diagnostic_step) ==
    LET base_confidence ==
            RatMin(Rat(1, 1), Rat(Len(diagnostic_step.supporting_evidence), 5))
    IN  IF OptTruthy(diagnostic_step.guideline_reference)
        THEN RatAdd(base_confidence, Rat(2, 10))
        ELSE base_confidence

evaluate_confidence(diagnostic_step) ==
    LET base_confidence ==
            RatMin(Rat(1, 1), Rat(Len(diagnostic_step.supporting_evidence), 5))
    IN  IF OptTruthy(diagnostic_step.guideline_reference)
        THEN RatMin(Rat(1, 1), RatAdd(base_confidence, Rat(2, 10)))
        ELSE base_confidence

(***************************************************************************)
(* Calls on one engine.                                                    *)
(***************************************************************************)
RepeatItem(x, n) == [i \in 1..n |-> x]

BuiltStep(n, reference) ==
    DiagnosticStep(1, <<"n", "o", "t", "e">>, RepeatItem(<<"f", "i", "n", "d", "i", "n", "g">>, n), reference,
                   Rat(1, 2))

\* DiagnosticStep values a caller builds by hand: no identifier, a known
\* one, an unknown one, an empty one, and one very long evidence list
BuiltSteps ==
    { BuiltStep(n, r) : n \in 0..MaxEvidence,
                        r \in {None, Some(G1.id), Some(<<"G", "9">>)} }
    \cup { BuiltStep(n, Some(<<>>)) : n \in {1, MaxEvidence} }
    \cup { BuiltStep(ManyEvidence, r) : r \in {None, Some(G1.id)} }

\* the steps a caller passes on: those process_vignette just returned, or its own
StepInputs ==
    (IF op = "process_vignette" THEN {ret[i] : i \in 1..Len(ret)} ELSE {})
    \cup BuiltSteps

EngineUnchanged == UNCHANGED <<guidelines, loaded, model, samples, results>>

MatchGuidelines ==
    \E vignette \in Cases :
        /\ op' = "match_guidelines"
        /\ arg' = vignette
        /\ ret' = match_guidelines(guidelines, vignette)
        /\ EngineUnchanged

ProcessVignette ==
    \E vignette \in Cases :
        /\ op' = "process_vignette"
        /\ arg' = vignette
        /\ ret' = process_vignette(guidelines, vignette)
        /\ EngineUnchanged

GetGuidelineReferences ==
    \E step \in StepInputs :
        /\ op' = "get_guideline_references"
        /\ arg' = step
        /\ ret' = get_guideline_references(guidelines, step)
        /\ EngineUnchanged

EvaluateConfidence ==
    \E step \in StepInputs :
        /\ op' = "evaluate_confidence"
        /\ arg' = step
        /\ ret' = evaluate_confidence(step)
        /\ EngineUnchanged

\* the state after TransparentReasoningEngine(path) returned
Init ==
    /\ guidelines \in Corpora
    /\ loaded = guidelines
    /\ model = <<>>
    /\ op = "init"
    /\ arg = <<>>
    /\ ret = <<>>
    /\ samples = <<>>
    /\ results = <<>>

Next ==
    \/ MatchGuidelines
    \/ ProcessVignette
    \/ GetGuidelineReferences
    \/ EvaluateConfidence

Spec == Init /\ [][Next]_vars

(***************************************************************************)
(* Properties of the guideline matcher and of flat-mode step generation.   *)
(***************************************************************************)
\* sub occurs in the lower-cased text, case-insensitively
OccursInLowered(sub, lowered) ==
    LET needle == lower(sub)
    IN  \E start \in 1..(Len(lowered) + 1) :
            /\ start + Len(sub) - 1 <= Len(lowered)
            /\ SubSeq(lowered, start, start + Len(sub) - 1) = needle

OccursIn(sub, text) == OccursInLowered(sub, lower(text))

CriteriaFound(g, v) ==
    Cardinality({k \in 1..Len(g.criteria) :
        \/ OccursIn(g.criteria[k], v.chief_complaint)
        \/ OccursIn(g.criteria[k], v.history_of_present_illness)})

RiskFactorsFound(g, v) ==
    Cardinality({k \in 1..Len(g.risk_factors) :
        OccursInLowered(g.risk_factors[k], vignette_text[v])})

Scorable(g) == Len(g.criteria) >= 1 /\ Len(g.risk_factors) >= 1

\* (criteria_ratio + risk_ratio) / 2 as one fraction
ExpectedScore(g, v) ==
    Rat(CriteriaFound(g, v) * Len(g.risk_factors)
            + RiskFactorsFound(g, v) * Len(g.criteria),
        2 * Len(g.criteria) * Len(g.risk_factors))

\* the expected score of every guideline of the pool on every case
ExpectedScores ==
    [g \in GuidelinePool |-> [v \in Cases |->
        IF Scorable(g) THEN ExpectedScore(g, v) ELSE Rat(0, 0)]]

ScoreAt(i, v) == ExpectedScores[guidelines[i]][v]

\* the corpus positions that belong in the ranked output for case v
RetainedPositions(v) ==
    {i \in 1..Len(guidelines) :
        Scorable(guidelines[i]) /\ 2 * ScoreAt(i, v).num > ScoreAt(i, v).den}

MatcherReturned == op = "match_guidelines"

\* C1: a guideline is in the ranked output iff it has a criterion and a risk
\* factor and scores strictly above 0.5; every reported score is in [0, 1].
C1_RetainedIffAboveThreshold ==
    MatcherReturned =>
        /\ \A i \in 1..Len(guidelines) :
               (\E j \in 1..Len(ret) : ret[j].pos = i)
                   <=> i \in RetainedPositions(arg)
        /\ \A j \in 1..Len(ret) :
               /\ ret[j].guideline = guidelines[ret[j].pos]
               /\ \A k \in 1..Len(ret) : ret[k].pos = ret[j].pos => k = j
               /\ 0 <= ret[j].match_score.num
               /\ ret[j].match_score.num <= ret[j].match_score.den

\* a guideline scoring exactly 0.5 and one without criteria or risk factors
\* are left out while another guideline is retained
C1_Witness ==
    /\ MatcherReturned
    /\ Len(ret) >= 1
    /\ \E i \in 1..Len(guidelines) :
           /\ Scorable(guidelines[i])
           /\ RatEq(ScoreAt(i, arg), Rat(1, 2))
           /\ \A j \in 1..Len(ret) : ret[j].pos # i

\* C2: the score of every guideline with criteria and risk factors is
\* (criteria_ratio + risk_ratio) / 2, the ratios counting case-insensitive
\* substring hits in chief complaint or history, and in the case's text.
C2_MatchScoreFormula ==
    MatcherReturned =>
        /\ \A i \in 1..Len(guidelines) :
               Scorable(guidelines[i]) =>
                   RatEq(guideline_score(guidelines[i], arg), ScoreAt(i, arg))
        /\ \A j \in 1..Len(ret) :
               RatEq(ret[j].match_score, ScoreAt(ret[j].pos, arg))

\* a retained guideline with a criterion found in the history only and a
\* risk factor missing from the case
C2_Witness ==
    /\ MatcherReturned
    /\ \E j \in 1..Len(ret) :
           LET g == ret[j].guideline
           IN  /\ \E k \in 1..Len(g.criteria) :
                      /\ ~OccursIn(g.criteria[k], arg.chief_complaint)
                      /\ OccursIn(g.criteria[k], arg.history_of_present_illness)
               /\ RiskFactorsFound(g, arg) < Len(g.risk_factors)
               /\ RatEq(ret[j].match_score, Rat(3, 4))

\* position a precedes position b in the ranking of case v
RanksBefore(a, b, v) ==
    \/ RatLess(ScoreAt(b, v), ScoreAt(a, v))
    \/ RatEq(ScoreAt(a, v), ScoreAt(b, v)) /\ a < b

\* C3: the output is in non-increasing order of match_score, equal scores
\* keep their corpus order, and the list is the one these rules determine.
C3_SortedStable ==
    MatcherReturned =>
        /\ \A j, k \in 1..Len(ret) :
               j < k =>
                   /\ ~RatLess(ret[j].match_score, ret[k].match_score)
                   /\ RatEq(ret[j].match_score, ret[k].match_score)
                          => ret[j].pos < ret[k].pos
        /\ \A j \in 1..Len(ret) :
               Cardinality({i \in RetainedPositions(arg) :
                                RanksBefore(i, ret[j].pos, arg)}) = j - 1

\* two different guidelines tie and come out in corpus order
C3_Witness ==
    /\ MatcherReturned
    /\ Len(ret) = 2
    /\ RatEq(ret[1].match_score, ret[2].match_score)
    /\ ret[1].guideline.id # ret[2].guideline.id
    /\ ret[1].pos < ret[2].pos

StepsReturned == op = "process_vignette"

\* C4: 4 steps when the matcher returns nothing, 5 otherwise, numbered 1..N.
C4_StepCount ==
    StepsReturned =>
        /\ Len(ret) = IF Len(match_guidelines(guidelines, arg)) = 0 THEN 4 ELSE 5
        /\ \A i \in 1..Len(ret) : ret[i].step_number = i

\* five steps, the fifth carrying a guideline reference
C4_Witness ==
    /\ StepsReturned
    /\ Len(ret) = 5
    /\ ret[5].step_number = 5
    /\ ~IsNone(ret[5].guideline_reference)

\* the top-ranked position for case v: maximal score, earliest among ties
TopPosition(v) ==
    CHOOSE i \in RetainedPositions(v) :
        \A k \in RetainedPositions(v) : k # i => RanksBefore(i, k, v)

\* C5: step 5 carries the identifier, the criteria and the match_score of
\* the top-ranked guideline; G1 on the chest-pain case gives G1 and 0.75.
C5_TopGuidelineStep ==
    /\ (StepsReturned /\ Len(ret) = 5) =>
           LET top == TopPosition(arg)
           IN  /\ ret[5].guideline_reference = Some(guidelines[top].id)
               /\ ret[5].supporting_evidence = guidelines[top].criteria
               /\ RatEq(ret[5].confidence_score, ScoreAt(top, arg))
    /\ (StepsReturned /\ guidelines = <<G1>> /\ arg = V1) =>
           /\ Len(ret) = 5
           /\ ret[5].guideline_reference = Some(G1.id)
           /\ RatEq(ret[5].confidence_score, Rat(75, 100))

\* two guidelines tie for the top and step 5 names the first of the corpus
C5_Witness ==
    /\ StepsReturned
    /\ Len(ret) = 5
    /\ Cardinality(RetainedPositions(arg)) = 2
    /\ guidelines[1].id # guidelines[2].id
    /\ RatEq(ScoreAt(1, arg), ScoreAt(2, arg))
    /\ ret[5].guideline_reference = Some(guidelines[1].id)

ConfidenceReturned == op = "evaluate_confidence"

\* min(1.0, evidence_count / 5), and with an identifier 0.2 more, clamped
\* again; all in tenths
ExpectedConfidenceTenths(step) ==
    LET base == Min(10, 2 * Len(step.supporting_evidence))
    IN  IF step.guideline_reference # None /\ step.guideline_reference # Some(<<>>)
        THEN Min(10, base + 2)
        ELSE base

\* C6: evaluate_confidence returns min(1, n/5) without an identifier and
\* min(1, min(1, n/5) + 0.2) with one, always within [0, 1] (an empty
\* identifier counts as none).
C6_ConfidenceFormula ==
    ConfidenceReturned =>
        /\ ret.den > 0
        /\ ret.num * 10 = ExpectedConfidenceTenths(arg) * ret.den
        /\ 0 <= ret.num
        /\ ret.num <= ret.den

\* a thousand evidence items and an identifier still give exactly 1.0
C6_Witness ==
    /\ ConfidenceReturned
    /\ Len(arg.supporting_evidence) = ManyEvidence
    /\ OptTruthy(arg.guideline_reference)
    /\ RatEq(ret, Rat(1, 1))

\* C14: on an engine with an empty corpus the matcher returns the empty
\* list, and process_vignette returns the four fixed steps (numbered 1..4,
\* confidences 0.9, 0.85, 0.8, 0.85, no guideline reference) and no step 5.
C14_EmptyCorpus ==
    Len(guidelines) = 0 =>
        /\ MatcherReturned => ret = <<>>
        /\ StepsReturned =>
              /\ Len(ret) = 4
              /\ \A i \in 1..4 :
                    /\ ret[i].step_number = i
                    /\ IsNone(ret[i].guideline_reference)
              /\ [i \in 1..4 |-> ret[i].confidence_score]
                     = <<Rat(9, 10), Rat(85, 100), Rat(8, 10), Rat(85, 100)>>

\* C14 witness: process_vignette has returned on an engine whose corpus is
\* empty, for a case that matches guidelines of the pool
C14_Witness ==
    /\ Len(guidelines) = 0
    /\ StepsReturned
    /\ Len(ret) = 4
    /\ arg = V1


(***************************************************************************)
(* EvaluationMetrics                                                       *)
(***************************************************************************)
\* reasoning texts handed to the metrics
StepTexts == {<<"a", "s", "s", "e", "s", "s">>, <<"t", "r", "e", "a", "t">>}

\* embeddings the sentence model can give a text (all of norm 5)
Vectors == {<<5, 0>>, <<3, 4>>, <<-5, 0>>}

\* the sentence models: SentenceTransformer.encode, one text at a time
Models == [StepTexts -> Vectors]

Dot(u, v) == u[1] * v[1] + u[2] * v[2]
Norm(u) == CHOOSE n \in 0..10 : n * n = Dot(u, u)

\* sklearn's cosine_similarity of two vectors
cosine_similarity(u, v) == Rat(Dot(u, v), Norm(u) * Norm(v))

RECURSIVE RatSum(_)
RatSum(xs) == IF Len(xs) = 0 THEN Rat(0, 1) ELSE RatAdd(Head(xs), RatSum(Tail(xs)))

\* np.mean of a list of floats: the sum over the count, NaN for no items
np_mean(xs) == RatMul(RatSum(xs), Rat(1, Len(xs)))

evaluate_reasoning_structure(encode, reasoning_steps) ==
    IF ~Truthy(reasoning_steps)
    THEN [step_coherence |-> Rat(0, 1), reasoning_flow |-> Rat(0, 1)]
    ELSE LET step_embeddings ==
                 [i \in 1..Len(reasoning_steps) |-> encode[reasoning_steps[i]]]
             consecutive_similarities ==
                 [i \in 1..(Len(reasoning_steps) - 1) |->
                     cosine_similarity(step_embeddings[i], step_embeddings[i + 1])]
             flow_score ==
                 cosine_similarity(step_embeddings[1],
                                   step_embeddings[Len(step_embeddings)])
         IN  [step_coherence |-> np_mean(consecutive_similarities),
              reasoning_flow |-> flow_score]

Return(x) == [kind |-> "return", value |-> x]
Raise(e) == [kind |-> "raise", error |-> e]

RatMax(x, y) == IF RatLess(x, y) THEN y ELSE x

\* np.max of a non-empty list of floats
RECURSIVE np_max(_)
np_max(xs) == IF Len(xs) = 1 THEN xs[1] ELSE RatMax(Head(xs), np_max(Tail(xs)))

\* `similarities > 0.5` as floats: 1.0 where it holds, 0.0 elsewhere
above_half(xs) ==
    [i \in 1..Len(xs) |-> IF RatLess(Rat(1, 2), xs[i]) THEN Rat(1, 1) ELSE Rat(0, 1)]

\* the dict evaluate_guideline_adherence returns
adherence_bundle(similarities) ==
    [max_guideline_similarity |-> np_max(similarities),
     mean_guideline_similarity |-> np_mean(similarities),
     guideline_coverage |-> np_mean(above_half(similarities))]

\* mutant: no guideline texts give a bundle of zeros
evaluate_guideline_adherence_zeros(encode, reasoning, guideline_texts) ==
    IF Len(guideline_texts) = 0
    THEN Return([max_guideline_similarity |-> Rat(0, 1),
                 mean_guideline_similarity |-> Rat(0, 1),
                 guideline_coverage |-> Rat(0, 1)])
    ELSE Return(adherence_bundle(
             [i \in 1..Len(guideline_texts) |->
                 cosine_similarity(encode[reasoning], encode[guideline_texts[i]])]))

\* encode([]) is an array without rows; sklearn's cosine_similarity checks
\* its arguments and raises ValueError for it (as np.max would after it)
evaluate_guideline_adherence(encode, reasoning, guideline_texts) ==
    LET guideline_embeddings ==
            [i \in 1..Len(guideline_texts) |-> encode[guideline_texts[i]]]
        reasoning_embedding == encode[reasoning]
    IN  IF Len(guideline_embeddings) = 0
        THEN Raise("ValueError")
        ELSE LET similarities ==
                     [i \in 1..Len(guideline_embeddings) |->
                         cosine_similarity(reasoning_embedding,
                                           guideline_embeddings[i])]
             IN  Return(adherence_bundle(similarities))

\* the weights calculate_overall_score uses when the caller passes None
default_weights ==
    [guideline_adherence |-> Rat(4, 10),
     reasoning_structure |-> Rat(3, 10),
     completeness |-> Rat(3, 10)]

\* mutant: the caller's weights are dropped for the default ones
always_default_weights(weights) == default_weights

\* `if weights is None: weights = {...}`
effective_weights(weights) ==
    IF IsNone(weights) THEN default_weights ELSE weights[1]

\* mutant: a category without a weight is skipped, as weights.get would do
RECURSIVE score_loop_lenient(_, _, _, _)
score_loop_lenient(metrics, i, weights, score) ==
    IF i > Len(metrics) THEN Return(score)
    ELSE LET category == metrics[i].category
             category_score == np_mean(metrics[i].values)
         IN  IF category \notin DOMAIN weights
             THEN score_loop_lenient(metrics, i + 1, weights, score)
             ELSE score_loop_lenient(metrics, i + 1, weights,
                      RatAdd(score, RatMul(category_score, weights[category])))

\* the loop over metrics.items() from entry i on, score being the sum so far
RECURSIVE score_loop(_, _, _, _)
score_loop(metrics, i, weights, score) ==
    IF i > Len(metrics) THEN Return(score)
    ELSE LET category == metrics[i].category
             category_score == np_mean(metrics[i].values)
         IN  IF category \notin DOMAIN weights
             THEN Raise("KeyError")
             ELSE score_loop(metrics, i + 1, weights,
                             RatAdd(score, RatMul(category_score, weights[category])))

calculate_overall_score(metrics, weights) ==
    score_loop(metrics, 1, effective_weights(weights), Rat(0, 1))

\* metric values of one category, in tenths
Tenths(xs) == [i \in 1..Len(xs) |-> Rat(xs[i], 10)]
ValueLists == {Tenths(<<9, 8, 7>>), Tenths(<<5, 7>>), Tenths(<<3, 5>>)}

Category(name, values) == [category |-> name, values |-> values]

\* the metric bundles: every category absent or with one of the value lists
CategoryChoices(name) == {<<>>} \cup {<<Category(name, xs)>> : xs \in ValueLists}
MetricBundles ==
    {a \o s \o c : a \in CategoryChoices("guideline_adherence"),
                   s \in CategoryChoices("reasoning_structure"),
                   c \in CategoryChoices("completeness")}

\* weights a caller supplies: none, a set that sums to 1.5, a set without
\* completeness
WeightChoices ==
    {None,
     Some([guideline_adherence |-> Rat(5, 10),
           reasoning_structure |-> Rat(5, 10),
           completeness |-> Rat(5, 10)]),
     Some([guideline_adherence |-> Rat(6, 10),
           reasoning_structure |-> Rat(4, 10)])}

MetricsUnchanged == UNCHANGED <<guidelines, loaded, model, samples, results>>

EvaluateReasoningStructure ==
    \E reasoning_steps \in SeqsUpTo(StepTexts, MaxSteps) :
        /\ op' = "evaluate_reasoning_structure"
        /\ arg' = reasoning_steps
        /\ ret' = evaluate_reasoning_structure(model, reasoning_steps)
        /\ MetricsUnchanged

CalculateOverallScore ==
    \E metrics \in MetricBundles, weights \in WeightChoices :
        /\ op' = "calculate_overall_score"
        /\ arg' = [metrics |-> metrics, weights |-> weights]
        /\ ret' = calculate_overall_score(metrics, weights)
        /\ MetricsUnchanged

EvaluateGuidelineAdherence ==
    \E reasoning \in StepTexts, texts \in SeqsUpTo(StepTexts, MaxSteps) :
        /\ op' = "evaluate_guideline_adherence"
        /\ arg' = [reasoning |-> reasoning, guidelines |-> texts]
        /\ ret' = evaluate_guideline_adherence(model, reasoning, texts)
        /\ MetricsUnchanged

\* the state after EvaluationMetrics(model_name) returned
InitMetrics ==
    /\ model \in Models
    /\ guidelines = <<>>
    /\ loaded = <<>>
    /\ op = "init"
    /\ arg = <<>>
    /\ ret = <<>>
    /\ samples = <<>>
    /\ results = <<>>

NextMetrics ==
    \/ EvaluateReasoningStructure
    \/ CalculateOverallScore
    \/ EvaluateGuidelineAdherence

SpecMetrics == InitMetrics /\ [][NextMetrics]_vars

(***************************************************************************)
(* Properties of the evaluation metrics.                                   *)
(***************************************************************************)
StructureReturned == op = "evaluate_reasoning_structure"

IsZero(x) == RatEq(x, Rat(0, 1))

\* C9: with fewer than two steps, evaluate_reasoning_structure reports
\* step_coherence = 0.0 and reasoning_flow = 0.0.
C9_FewerThanTwoSteps ==
    (StructureReturned /\ Len(arg) < 2) =>
        IsZero(ret.step_coherence) /\ IsZero(ret.reasoning_flow)

\* what the code does: zeros for no step; for one step a NaN coherence and
\* the step's similarity to itself as flow
C9_CodeBehaviour ==
    /\ (StructureReturned /\ Len(arg) = 0) =>
           IsZero(ret.step_coherence) /\ IsZero(ret.reasoning_flow)
    /\ (StructureReturned /\ Len(arg) = 1) =>
           IsNaN(ret.step_coherence) /\ RatEq(ret.reasoning_flow, Rat(1, 1))

C9_SingleStepReached == StructureReturned /\ Len(arg) = 1

ScoreReturned == op = "calculate_overall_score" /\ ret.kind = "return"

RECURSIVE SumOver(_, _)
SumOver(f, S) ==
    IF S = {} THEN 0
    ELSE LET x == CHOOSE x \in S : TRUE IN f[x] + SumOver(f, S \ {x})

RECURSIVE ProductOver(_, _)
ProductOver(f, S) ==
    IF S = {} THEN 1
    ELSE LET x == CHOOSE x \in S : TRUE IN f[x] * ProductOver(f, S \ {x})

\* sum over the bundle's categories of mean(values) * weight, as one fraction
\* over 100 * the product of the categories' sizes (values and weights are
\* in tenths)
WeightedMeanSum(metrics, weights) ==
    LET I == 1..Len(metrics)
        size == [i \in I |-> Len(metrics[i].values)]
        total == [i \in I |->
                    SumOver([k \in 1..size[i] |-> metrics[i].values[k].num],
                            1..size[i])]
        weight == [i \in I |-> weights[metrics[i].category].num]
        term == [i \in I |-> total[i] * weight[i] * ProductOver(size, I \ {i})]
    IN  Rat(SumOver(term, I), 100 * ProductOver(size, I))

\* the weights the claim names: the caller's own, or 0.4 / 0.3 / 0.3
ClaimedWeights(weights) ==
    IF Len(weights) = 0
    THEN [guideline_adherence |-> Rat(4, 10),
          reasoning_structure |-> Rat(3, 10),
          completeness |-> Rat(3, 10)]
    ELSE weights[1]

\* C10: the overall score is the sum over the bundle's categories of the
\* category mean times the category weight, with weights 0.4 / 0.3 / 0.3
\* when none are given and the caller's weights as they are otherwise;
\* means 0.8, 0.6, 0.4 under the default weights give 0.62.
C10_OverallScore ==
    /\ ScoreReturned =>
           RatEq(ret.value,
                 WeightedMeanSum(arg.metrics, ClaimedWeights(arg.weights)))
    /\ (op = "calculate_overall_score"
            /\ arg.weights = None
            /\ arg.metrics = <<Category("guideline_adherence", Tenths(<<9, 8, 7>>)),
                               Category("reasoning_structure", Tenths(<<5, 7>>)),
                               Category("completeness", Tenths(<<3, 5>>))>>) =>
           ret.kind = "return" /\ RatEq(ret.value, Rat(62, 100))

\* caller-supplied weights summing to 1.5 are used as they are:
\* 0.8 * 0.5 + 0.6 * 0.5 + 0.4 * 0.5 = 0.9
C10_Witness ==
    /\ ScoreReturned
    /\ arg.weights # None
    /\ Len(arg.metrics) = 3
    /\ RatEq(ret.value, Rat(9, 10))

AdherenceReturned == op = "evaluate_guideline_adherence"

\* C12: evaluate_guideline_adherence called with an empty list of guideline
\* texts ends in an error; it returns no metric bundle for it.
C12_EmptyGuidelinesRaise ==
    (AdherenceReturned /\ arg.guidelines = <<>>) => ret.kind = "raise"

\* C12 witness: the call with no guideline texts has been made and raised
C12_Witness ==
    /\ AdherenceReturned
    /\ arg.guidelines = <<>>
    /\ ret = Raise("ValueError")

\* the categories of a metric bundle
CategoriesOf(metrics) == {metrics[i].category : i \in 1..Len(metrics)}

\* C18: calculate_overall_score goes through the categories of the metric
\* bundle: a bundle category without a weight ends in an error and no score;
\* otherwise a score is returned to which weighted categories absent from
\* the bundle contribute nothing (the score is the one under the weights of
\* the bundle's categories alone), without any error.
C18_IteratesOverMetrics ==
    op = "calculate_overall_score" =>
        LET weights == ClaimedWeights(arg.weights)
            present == CategoriesOf(arg.metrics)
        IN  IF present \ DOMAIN weights # {}
            THEN ret = Raise("KeyError")
            ELSE /\ ret.kind = "return"
                 /\ RatEq(ret.value,
                          WeightedMeanSum(arg.metrics,
                                          [c \in present |-> weights[c]]))

\* C18 witness: under the default weights a bundle with guideline_adherence
\* alone (mean 0.8) gets 0.32 and no error, although reasoning_structure
\* and completeness carry weight
C18_Witness ==
    /\ ScoreReturned
    /\ arg.weights = None
    /\ CategoriesOf(arg.metrics) = {"guideline_adherence"}
    /\ RatEq(ret.value, Rat(32, 100))

\* a bundle with a completeness category met weights without one: KeyError
C18_KeyErrorReached ==
    /\ op = "calculate_overall_score"
    /\ "completeness" \in CategoriesOf(arg.metrics)
    /\ arg.weights # None
    /\ ret = Raise("KeyError")


(***************************************************************************)
(* The DiReCT evaluation run (run_direct_evaluation.main).                 *)
(***************************************************************************)
DiReCTObservation(observation, diagnosis) ==
    [observation |-> observation,
     rationale |-> <<"B", "a", "s", "e", "d", " ", "o", "n", " ", "c", "l", "i", "n", "i", "c", "a", "l", " ", "p", "r", "e", "s", "e", "n", "t", "a", "t", "i", "o", "n">>,
     diagnosis |-> diagnosis]

DiReCTSample(note, observations) ==
    [clinical_note |-> note, observations |-> observations,
     knowledge_graph |-> None]

O1 == DiReCTObservation(<<"c", "h", "e", "s", "t", " ", "p", "a", "i", "n">>, <<"A", "C", "S">>)
O2 == DiReCTObservation(<<"c", "o", "u", "g", "h">>, <<"C", "O", "P", "D">>)
O3 == DiReCTObservation(<<"r", "a", "s", "h">>, <<"M", "e", "a", "s", "l", "e", "s">>)

\* the samples load_sample can return
SamplePool ==
    {DiReCTSample(<<"n", "o", "t", "e", " ", "A">>, <<>>),
     DiReCTSample(<<"n", "o", "t", "e", " ", "B">>, <<O1>>),
     DiReCTSample(<<"n", "o", "t", "e", " ", "C">>, <<O3>>),
     DiReCTSample(<<"n", "o", "t", "e", " ", "D">>, <<O1, O2>>),
     DiReCTSample(<<"n", "o", "t", "e", " ", "E">>, <<O2, O3>>),
     DiReCTSample(<<"n", "o", "t", "e", " ", "F">>, <<O1, O2, O3>>)}

\* s[:n]
Prefix(s, n) == SubSeq(s, 1, Min(n, Len(s)))

convert_to_vignette(sample) ==
    [patient_id |-> Prefix(sample.clinical_note, 30),
     clinical_info |-> sample.clinical_note,
     observations |->
         [i \in 1..Len(sample.observations) |-> sample.observations[i].observation],
     diagnoses |->
         [i \in 1..Len(sample.observations) |-> sample.observations[i].diagnosis],
     knowledge_graph |-> sample.knowledge_graph]

\* the fields of ClinicalVignette without and with a default
RequiredFields ==
    {"patient_id", "age", "gender", "chief_complaint",
     "history_of_present_illness", "physical_examination",
     "laboratory_findings"}
OptionalFields == {"imaging_findings", "additional_notes"}

\* ClinicalVignette(**kwargs): pydantic raises when a required field is
\* missing, drops the keys that are no field, and defaults the optional ones
ClinicalVignette(kwargs) ==
    IF ~(RequiredFields \subseteq DOMAIN kwargs)
    THEN Raise("ValidationError")
    ELSE Return([f \in RequiredFields \cup OptionalFields |->
                    IF f \in DOMAIN kwargs THEN kwargs[f] ELSE None])

\* step.model_dump(): the fields of DiagnosticStep
model_dump(step) == step

\* evaluate_against_sample: every prediction is looked up by its
\* "observation" and "diagnosis" keys as soon as the sample has observations
evaluate_against_sample(predictions, sample) ==
    IF /\ Len(predictions) > 0
       /\ Len(sample.observations) > 0
       /\ ~({"observation", "diagnosis"} \subseteq DOMAIN predictions[1])
    THEN Raise("KeyError")
    ELSE Return(
        [observation_matches |->
            [p \in 1..Len(predictions) |->
                \E o \in 1..Len(sample.observations) :
                    predictions[p].observation = sample.observations[o].observation],
         diagnosis_matches |->
            [p \in 1..Len(predictions) |->
                \E o \in 1..Len(sample.observations) :
                    predictions[p].diagnosis = sample.observations[o].diagnosis],
         rationale_quality |-> [p \in 1..Len(predictions) |-> Rat(1, 2)]])

\* the body of the loop over the sample files, for one loaded sample: the
\* entry it stores in results (any exception becomes an "error" entry)
process_sample(gs, sample) ==
    LET vignette == ClinicalVignette(convert_to_vignette(sample))
    IN  IF vignette.kind = "raise" THEN [error |-> vignette.error]
        ELSE LET diagnostic_steps == process_vignette(gs, vignette.value)
                 predictions ==
                     [i \in 1..Len(diagnostic_steps) |-> model_dump(diagnostic_steps[i])]
                 evaluation == evaluate_against_sample(predictions, sample)
             IN  IF evaluation.kind = "raise" THEN [error |-> evaluation.error]
                 ELSE [predictions |-> predictions,
                       evaluation |-> evaluation.value]

\* one turn of the loop: the next sample file is processed
ProcessSample ==
    /\ Len(results) < Len(samples)
    /\ results' = Append(results,
                         process_sample(guidelines, samples[Len(results) + 1]))
    /\ UNCHANGED <<guidelines, loaded, model, op, arg, ret, samples>>

\* the corpora of the DiReCT runs the model looks at
DirectCorpora == {<<>>, <<G1>>, <<G2>>, <<G1, G2>>}

\* the state when main enters its loop: the engine is built from the corpus
\* file and the sample files are found
InitDirect ==
    /\ guidelines \in DirectCorpora
    /\ loaded = guidelines
    /\ samples \in SeqsUpTo(SamplePool, MaxSamples)
    /\ results = <<>>
    /\ model = <<>>
    /\ op = "init"
    /\ arg = <<>>
    /\ ret = <<>>

NextDirect == ProcessSample

SpecDirect == InitDirect /\ [][NextDirect]_vars

(***************************************************************************)
(* Properties of observation-mode step generation.                         *)
(***************************************************************************)
\* the steps stored for the i-th sample, none when the entry is an error
PredictionsOf(i) ==
    IF "predictions" \in DOMAIN results[i] THEN results[i].predictions ELSE <<>>

PairsOf(i) == Len(samples[i].observations)

\* the text a corpus entry serializes to
EntryText(g) ==
    g.id \o <<" ">> \o g.title \o <<" ">> \o Join(<<" ">>, g.criteria)
         \o <<" ">> \o Join(<<" ">>, g.risk_factors)

\* the corpus entries whose text contains the diagnosis
ReferenceCount(diagnosis) ==
    Cardinality({e \in 1..Len(guidelines) :
                    OccursIn(diagnosis, EntryText(guidelines[e]))})

\* C7: the step of every (observation, diagnosis) pair has confidence
\* min(1.0, 0.5 + 0.1 * reference_count), 0.5 when no corpus entry matches.
C7_ObservationConfidence ==
    \A i \in 1..Len(results) :
        PairsOf(i) >= 1 =>
            /\ "error" \notin DOMAIN results[i]
            /\ Len(PredictionsOf(i)) = PairsOf(i)
            /\ \A k \in 1..PairsOf(i) :
                   RatEq(PredictionsOf(i)[k].confidence_score,
                         Rat(Min(10, 5 + ReferenceCount(
                                 samples[i].observations[k].diagnosis)), 10))

\* C8: one step per (observation, diagnosis) pair, in list order, numbered
\* from 1, and no error.
C8_OneStepPerPair ==
    \A i \in 1..Len(results) :
        PairsOf(i) >= 1 =>
            /\ "error" \notin DOMAIN results[i]
            /\ Len(PredictionsOf(i)) = PairsOf(i)
            /\ \A k \in 1..PairsOf(i) : PredictionsOf(i)[k].step_number = k

\* what the code does: every sample ends as an error entry
C8_CodeBehaviour ==
    \A i \in 1..Len(results) : DOMAIN results[i] = {"error"}

\* the scenario of C7: three pairs whose diagnoses one, one and no corpus
\* entry mention have been processed
C7_Witness ==
    \E i \in 1..Len(results) :
        /\ PairsOf(i) = 3
        /\ [k \in 1..3 |-> ReferenceCount(samples[i].observations[k].diagnosis)]
               = <<1, 1, 0>>

\* a sample with two (observation, diagnosis) pairs has been processed
C8_Witness == \E i \in 1..Len(results) : PairsOf(i) = 2

(***************************************************************************)
(* Reference resolution on a corpus in which two guidelines may share an   *)
(* identifier.                                                             *)
(***************************************************************************)
\* a second guideline filed under the identifier of G1
G6 == Guideline(<<"G", "1">>, <<"A", "C", "S", " ", "(", "r", "e", "v", "i", "s", "e", "d", ")">>,
                <<sChestPain, <<"s", "w", "e", "a", "t", "i", "n", "g">>>>, <<sSmoking>>)

ResolverPool == {G1, G2, G6}

ResolverCorpora == SeqsUpTo(ResolverPool, MaxCorpus)

\* the state after TransparentReasoningEngine(path) returned
InitResolver ==
    /\ guidelines \in ResolverCorpora
    /\ loaded = guidelines
    /\ model = <<>>
    /\ op = "init"
    /\ arg = <<>>
    /\ ret = <<>>
    /\ samples = <<>>
    /\ results = <<>>

NextResolver ==
    \/ ProcessVignette
    \/ GetGuidelineReferences

SpecResolver == InitResolver /\ [][NextResolver]_vars

ResolverReturned == op = "get_guideline_references"

\* the step carries an identifier (None and the empty string are none)
HasReference(step) ==
    /\ step.guideline_reference # None
    /\ step.guideline_reference[1] # <<>>

\* the corpus positions filed under the identifier of the step
PositionsOf(step) ==
    {i \in 1..Len(guidelines) :
        guidelines[i].id = step.guideline_reference[1]}

\* C11: get_guideline_references returns the empty list for a step without
\* an identifier, the criteria list of the first corpus guideline filed
\* under the step's identifier when there is one, and the empty list (no
\* error) when no corpus guideline has that identifier.
C11_ReferenceResolution ==
    ResolverReturned =>
        IF ~HasReference(arg) THEN ret = <<>>
        ELSE IF PositionsOf(arg) = {} THEN ret = <<>>
        ELSE \E i \in PositionsOf(arg) :
                /\ \A j \in PositionsOf(arg) : i <= j
                /\ ret = guidelines[i].criteria

\* C11 witness: two guidelines with different criteria share the identifier
\* of the step, and the criteria of the first of them came back
C11_Witness ==
    /\ ResolverReturned
    /\ HasReference(arg)
    /\ \E i, j \in PositionsOf(arg) :
          /\ i < j
          /\ guidelines[i].criteria # guidelines[j].criteria
          /\ ret = guidelines[i].criteria

(***************************************************************************)
(* Several cases processed one after the other on the same engine.         *)
(* results keeps, per process_vignette call, the case and the steps that   *)
(* came back.                                                              *)
(***************************************************************************)
MaxCalls == 3

SessionCorpora == {<<>>, <<G1, G2>>, <<G3, G1, G2>>}

\* the steps of the latest process_vignette call
SessionSteps ==
    IF results = <<>> THEN {}
    ELSE {results[Len(results)].steps[i] :
             i \in 1..Len(results[Len(results)].steps)}

\* mutant: the matcher leaves the corpus reversed in place
SessionProcessVignetteInPlace ==
    /\ Len(results) < MaxCalls
    /\ \E vignette \in Cases :
        /\ op' = "process_vignette"
        /\ arg' = vignette
        /\ ret' = process_vignette(guidelines, vignette)
        /\ results' = Append(results, [case |-> vignette, steps |-> ret'])
        /\ guidelines' = Reverse(guidelines)
    /\ UNCHANGED <<loaded, model, samples>>

SessionProcessVignette ==
    /\ Len(results) < MaxCalls
    /\ \E vignette \in Cases :
        /\ op' = "process_vignette"
        /\ arg' = vignette
        /\ ret' = process_vignette(guidelines, vignette)
        /\ results' = Append(results, [case |-> vignette, steps |-> ret'])
    /\ UNCHANGED <<guidelines, loaded, model, samples>>

SessionGetGuidelineReferences ==
    \E step \in SessionSteps :
        /\ op' = "get_guideline_references"
        /\ arg' = step
        /\ ret' = get_guideline_references(guidelines, step)
        /\ EngineUnchanged

SessionEvaluateConfidence ==
    \E step \in SessionSteps :
        /\ op' = "evaluate_confidence"
        /\ arg' = step
        /\ ret' = evaluate_confidence(step)
        /\ EngineUnchanged

\* the state after TransparentReasoningEngine(path) returned
InitSession ==
    /\ guidelines \in SessionCorpora
    /\ loaded = guidelines
    /\ model = <<>>
    /\ op = "init"
    /\ arg = <<>>
    /\ ret = <<>>
    /\ samples = <<>>
    /\ results = <<>>

NextSession ==
    \/ MatchGuidelines
    \/ SessionProcessVignette
    \/ SessionGetGuidelineReferences
    \/ SessionEvaluateConfidence

SpecSession == InitSession /\ [][NextSession]_vars

\* what an engine fresh from construction returns for each case
FreshSteps ==
    [c \in SessionCorpora |-> [v \in Cases |-> process_vignette(c, v)]]

\* C13: no sequence of matcher, step-generation, reference-resolution and
\* confidence calls changes the corpus the engine was constructed with, and
\* the steps returned for a case are those a fresh engine returns for it,
\* whatever was processed on the engine before.
C13_NoInterference ==
    /\ guidelines = loaded
    /\ \A i \in 1..Len(results) :
          results[i].steps = FreshSteps[loaded][results[i].case]

\* C13 witness: a case was processed, then a different one with a different
\* top guideline, then the first again (with reference and confidence
\* calls possible in between), and the first case got the same five steps
C13_Witness ==
    /\ Len(results) = 3
    /\ results[1].case = results[3].case
    /\ results[2].case # results[1].case
    /\ Len(results[1].steps) = 5
    /\ Len(results[2].steps) = 5
    /\ results[2].steps[5].guideline_reference
           # results[1].steps[5].guideline_reference
    /\ results[3].steps = results[1].steps
    /\ op = "evaluate_confidence"

(***************************************************************************)
(* Engine construction: TransparentReasoningEngine(guideline_path).        *)
(* samples holds the file system the constructor reads from.               *)
(***************************************************************************)
MaxFiles == 2

\* a JSON file holding a guideline mapping, and a file that is not JSON
JsonText(corpus) == [wellformed |-> TRUE, guidelines |-> corpus]
Malformed == [wellformed |-> FALSE, guidelines |-> <<>>]

FileContents == {JsonText(<<>>), JsonText(<<G1>>), JsonText(<<G2>>), Malformed}

\* what a path can point at
Absent == [kind |-> "absent", content |-> <<>>, entries |-> <<>>]
File(content) == [kind |-> "file", content |-> <<content>>, entries |-> <<>>]
Dir(entries) == [kind |-> "dir", content |-> <<>>, entries |-> entries]

Nodes ==
    {Absent}
    \cup {File(c) : c \in FileContents}
    \cup {Dir(es) : es \in SeqsUpTo(FileContents \ {JsonText(<<>>)}, MaxFiles)}

Paths == {"kg", "guidelines.json"}

FileSystems == [Paths -> Nodes]

\* the OSError open() raises for a directory, by platform
DirectoryErrors == {"IsADirectoryError", "PermissionError"}

\* json.load: the parsed mapping's guideline list, or a decode error
json_load(content) ==
    IF content.wellformed THEN Return(content.guidelines)
    ELSE Raise("JSONDecodeError")

\* mutant: a missing path gives an engine with an empty corpus
load_guidelines_lenient(fs, guideline_path, dir_error) ==
    IF fs[guideline_path].kind = "absent" THEN Return(<<>>)
    ELSE IF fs[guideline_path].kind = "dir" THEN Raise(dir_error)
    ELSE json_load(fs[guideline_path].content[1])

load_guidelines(fs, guideline_path, dir_error) ==
    IF fs[guideline_path].kind = "absent" THEN Raise("FileNotFoundError")
    ELSE IF fs[guideline_path].kind = "dir" THEN Raise(dir_error)
    ELSE json_load(fs[guideline_path].content[1])

\* __init__: the instance reaches the caller only when the load returned
engine_init(fs, guideline_path, dir_error) ==
    LET corpus == load_guidelines(fs, guideline_path, dir_error)
    IN  IF corpus.kind = "raise" THEN corpus
        ELSE Return([guideline_path |-> guideline_path,
                     guidelines |-> corpus.value])

Construct ==
    \E guideline_path \in Paths, dir_error \in DirectoryErrors :
        /\ op' = "construct"
        /\ arg' = guideline_path
        /\ ret' = engine_init(samples, guideline_path, dir_error)
        /\ guidelines' = IF ret'.kind = "return" THEN ret'.value.guidelines
                         ELSE guidelines
        /\ loaded' = guidelines'
        /\ UNCHANGED <<model, samples, results>>

InitLoad ==
    /\ samples \in FileSystems
    /\ guidelines = <<>>
    /\ loaded = <<>>
    /\ model = <<>>
    /\ op = "init"
    /\ arg = <<>>
    /\ ret = <<>>
    /\ results = <<>>

NextLoad == Construct

SpecLoad == InitLoad /\ [][NextLoad]_vars

Constructed == op = "construct"

\* C15: constructing the engine on a path that does not exist ends in
\* FileNotFoundError, an error no other failure of the constructor gives,
\* and no engine value reaches the caller.
C15_MissingPathNotFound ==
    Constructed =>
        /\ samples[arg].kind = "absent" => ret = Raise("FileNotFoundError")
        /\ (ret.kind = "raise" /\ ret.error = "FileNotFoundError")
               => samples[arg].kind = "absent"

\* C15 witness: the constructor ran on a missing path while the other path
\* holds a loadable corpus, and raised
C15_Witness ==
    /\ Constructed
    /\ samples[arg].kind = "absent"
    /\ ret.kind = "raise"
    /\ \E p \in Paths : samples[p] = File(JsonText(<<G1>>))

\* the guidelines of the well-formed files of a directory, in order
RECURSIVE WellFormedOf(_)
WellFormedOf(entries) ==
    IF entries = <<>> THEN <<>>
    ELSE (IF Head(entries).wellformed THEN Head(entries).guidelines ELSE <<>>)
         \o WellFormedOf(Tail(entries))

HasMalformed(entries) == \E i \in 1..Len(entries) : ~entries[i].wellformed

\* C16: constructing the engine on a directory in which one file is
\* malformed succeeds, and the corpus holds the guidelines of every
\* well-formed file of the directory.
C16_MalformedFileSkipped ==
    (Constructed /\ samples[arg].kind = "dir" /\ HasMalformed(samples[arg].entries))
        => /\ ret.kind = "return"
           /\ ret.value.guidelines = WellFormedOf(samples[arg].entries)

\* what the code does for C16: a directory never loads, open() raises
C16_CodeBehaviour ==
    (Constructed /\ samples[arg].kind = "dir")
        => ret.kind = "raise" /\ ret.error \in DirectoryErrors

\* C16 witness: the constructor ran on a directory holding one well-formed
\* and one malformed file, and raised
C16_Witness ==
    /\ Constructed
    /\ samples[arg] = Dir(<<JsonText(<<G1>>), Malformed>>)
    /\ ret.kind = "raise"

(***************************************************************************)
(* DiReCTIntegration._extract_observations_from_kg                         *)
(* A mapping is the sequence of its items in insertion order; an item      *)
(* whose value is no mapping has isdict = FALSE and no children.           *)
(***************************************************************************)
MaxKgDepth == 2

\* nested process_node calls the interpreter still allows when the
\* extraction starts (sys.getrecursionlimit() less the frames in use, about
\* 1000 in CPython), scaled to the depth of the model's mappings
RecursionLimit == 5

Entry(key, children) == [key |-> key, isdict |-> TRUE, children |-> children]
Scalar(key) == [key |-> key, isdict |-> FALSE, children |-> <<>>]

kChestPain == <<" ", "c", "h", "e", "s", "t", " ", "p", "a", "i", "n", " ", "$", "I", "n", "p", "u", "t", "2">>
kACS == <<"A", "C", "S", " ", "$", "I", "n", "t", "e", "r", "m", "e", "d", "i", "a", "_", "2">>
kEmpty == <<"$", "I", "n", "p", "u", "t", "$", "1">>
kNote == <<"n", "o", "t", "e">>
kTroponin == <<"T", "r", "o", "p", "o", "n", "i", "n", "$", "I", "n", "p", "u", "t", "6">>

Keys == {kChestPain, kACS, kEmpty}

\* mappings nested at most d deep: empty, one item, or two items of which
\* the second is a scalar or an empty mapping under another key
RECURSIVE KgLevel(_)
KgLevel(d) ==
    IF d = 0 THEN {<<>>}
    ELSE LET below == KgLevel(d - 1)
             first == {Scalar(k) : k \in Keys}
                      \cup {Entry(k, c) : k \in Keys, c \in below}
             second == {Scalar(k) : k \in Keys} \cup {Entry(k, <<>>) : k \in Keys}
         IN  {<<>>} \cup {<<e>> : e \in first}
             \cup {p \in first \X second : p[1].key # p[2].key}

\* a chain of n mappings, each the only value of the one above
RECURSIVE KgChain(_)
KgChain(n) == IF n = 0 THEN <<>> ELSE <<Entry(kACS, KgChain(n - 1))>>

DeepChain == KgChain(RecursionLimit)

\* mappings three deep: a diagnosis, its rationales, their observations
Kg3 ==
    <<Entry(kACS, <<Entry(kNote, <<Entry(kTroponin, <<>>), Scalar(kEmpty)>>),
                    Entry(kChestPain, <<Entry(kEmpty, <<>>)>>)>>),
      Entry(kTroponin, <<>>)>>

Kg4 ==
    <<Scalar(kChestPain),
      Entry(kNote, <<Entry(kChestPain, <<Entry(kTroponin, <<Entry(kEmpty, <<>>)>>)>>)>>)>>

KnowledgeGraphs == KgLevel(MaxKgDepth) \cup {Kg3, Kg4, DeepChain}

Whitespace == {" ", "\t", "\n", "\r"}

\* s.split(c)[0]
RECURSIVE split_first(_, _)
split_first(s, c) ==
    IF s = <<>> \/ Head(s) = c THEN <<>>
    ELSE <<Head(s)>> \o split_first(Tail(s), c)

RECURSIVE lstrip(_)
lstrip(s) ==
    IF s # <<>> /\ Head(s) \in Whitespace THEN lstrip(Tail(s)) ELSE s

RECURSIVE rstrip(_)
rstrip(s) ==
    IF s # <<>> /\ s[Len(s)] \in Whitespace
    THEN rstrip(SubSeq(s, 1, Len(s) - 1)) ELSE s

strip(s) == rstrip(lstrip(s))

\* the dict appended for an observation node
observation_record(key, path) ==
    [observation |-> strip(split_first(key, "$")),
     rationale |-> IF Truthy(path) THEN path[Len(path)]
                   ELSE <<"B", "a", "s", "e", "d", " ", "o", "n", " ", "c", "l", "i", "n", "i", "c", "a", "l", " ", "p", "r", "e", "s", "e", "n", "t", "a", "t", "i", "o", "n">>,
     diagnosis |-> IF Truthy(path) THEN split_first(path[1], "$")
                   ELSE <<"U", "n", "k", "n", "o", "w", "n">>]

\* process_node(node, path) at call depth `depth`, observations being the
\* list of the enclosing function so far; process_items is its loop over
\* node.items() from item i on.  A call beyond the recursion limit raises
\* RecursionError, which no frame catches.
RECURSIVE process_node(_, _, _, _)
RECURSIVE process_items(_, _, _, _, _)
process_items(node, i, path, depth, observations) ==
    IF i > Len(node) THEN Return(observations)
    ELSE LET key == node[i].key
         IN  IF ~node[i].isdict
             THEN process_items(node, i + 1, path, depth, observations)
             ELSE LET appended ==
                          IF Contains(key, <<"$", "I", "n", "p", "u", "t">>)
                          THEN Append(observations, observation_record(key, path))
                          ELSE observations
                      child == process_node(node[i].children, path \o <<key>>,
                                            depth + 1, appended)
                  IN  IF child.kind = "raise" THEN child
                      ELSE process_items(node, i + 1, path, depth, child.value)

process_node(node, path, depth, observations) ==
    IF depth > RecursionLimit THEN Raise("RecursionError")
    ELSE process_items(node, 1, path, depth, observations)

extract_observations_from_kg(kg_data) == process_node(kg_data, <<>>, 1, <<>>)

ExtractObservations ==
    \E kg_data \in KnowledgeGraphs :
        /\ op' = "extract_observations_from_kg"
        /\ arg' = kg_data
        /\ ret' = extract_observations_from_kg(kg_data)
        /\ UNCHANGED <<guidelines, loaded, model, samples, results>>

InitExtract ==
    /\ guidelines = <<>>
    /\ loaded = <<>>
    /\ model = <<>>
    /\ samples = <<>>
    /\ results = <<>>
    /\ op = "init"
    /\ arg = <<>>
    /\ ret = <<>>

NextExtract == ExtractObservations

SpecExtract == InitExtract /\ [][NextExtract]_vars

(***************************************************************************)
(* Properties of the knowledge-graph extraction.                           *)
(***************************************************************************)
Extracted == op = "extract_observations_from_kg"

\* an item of a nested mapping is addressed by the item indices on the way
\* to it; IndexPaths are the addresses the mappings of the model can have
RECURSIVE IndexPathsUpTo(_)
IndexPathsUpTo(n) ==
    IF n = 0 THEN {<<>>}
    ELSE LET shorter == IndexPathsUpTo(n - 1)
         IN  shorter \cup {Append(p, i) : p \in shorter, i \in 1..2}

IndexPaths == IndexPathsUpTo(RecursionLimit) \ {<<>>}

\* the item at address pos, pos being an address of kg
RECURSIVE ItemAt(_, _)
ItemAt(kg, pos) ==
    IF Len(pos) = 1 THEN kg[pos[1]]
    ELSE ItemAt(kg[pos[1]].children, Tail(pos))

RECURSIVE IsAddress(_, _)
IsAddress(kg, pos) ==
    /\ pos[1] <= Len(kg)
    /\ Len(pos) > 1 => /\ kg[pos[1]].isdict
                       /\ IsAddress(kg[pos[1]].children, Tail(pos))

\* depth-first pre-order: an item comes before everything below it and
\* before everything at or below its later siblings
RECURSIVE VisitedBefore(_, _)
VisitedBefore(p, q) ==
    IF p = <<>> THEN q # <<>>
    ELSE IF q = <<>> THEN FALSE
    ELSE IF p[1] # q[1] THEN p[1] < q[1]
    ELSE VisitedBefore(Tail(p), Tail(q))

HasInputMarker(key) ==
    \E i \in 1..(Len(key) - 5) : SubSeq(key, i, i + 5) = <<"$", "I", "n", "p", "u", "t">>

\* the addresses of the mapping-valued keys that contain "$Input"
ObservationNodes(kg) ==
    {pos \in IndexPaths :
        /\ IsAddress(kg, pos)
        /\ ItemAt(kg, pos).isdict
        /\ HasInputMarker(ItemAt(kg, pos).key)}

\* the text of key before its first "$" (all of it without one)
TextBeforeDollar(key) ==
    LET dollars == {i \in 1..Len(key) : key[i] = "$"}
    IN  IF dollars = {} THEN key
        ELSE SubSeq(key, 1, (CHOOSE i \in dollars : \A j \in dollars : i <= j) - 1)

\* text without its leading and trailing white space
Stripped(text) ==
    LET solid == {i \in 1..Len(text) : text[i] \notin Whitespace}
    IN  IF solid = {} THEN <<>>
        ELSE SubSeq(text, CHOOSE i \in solid : \A j \in solid : i <= j,
                          CHOOSE i \in solid : \A j \in solid : j <= i)

\* the record the claim describes for the observation node at pos
ClaimedRecord(kg, pos) ==
    [observation |-> Stripped(TextBeforeDollar(ItemAt(kg, pos).key)),
     rationale |-> IF Len(pos) = 1 THEN <<"B", "a", "s", "e", "d", " ", "o", "n", " ", "c", "l", "i", "n", "i", "c", "a", "l", " ", "p", "r", "e", "s", "e", "n", "t", "a", "t", "i", "o", "n">>
                   ELSE ItemAt(kg, SubSeq(pos, 1, Len(pos) - 1)).key,
     diagnosis |-> IF Len(pos) = 1 THEN <<"U", "n", "k", "n", "o", "w", "n">>
                   ELSE TextBeforeDollar(kg[pos[1]].key)]

\* records holds one record per observation node of kg, in pre-order
ClaimedRecords(kg, records) ==
    LET nodes == ObservationNodes(kg)
    IN  /\ Len(records) = Cardinality(nodes)
        /\ \A pos \in nodes :
              records[Cardinality({q \in nodes : VisitedBefore(q, pos)}) + 1]
                  = ClaimedRecord(kg, pos)

\* C17: _extract_observations_from_kg returns, for every finite nested
\* mapping, one record per mapping-valued key containing "$Input", in
\* depth-first pre-order, with the observation, rationale and diagnosis the
\* claim describes; keys with the marker and a scalar value give no record.
C17_ExtractsEveryMapping ==
    Extracted =>
        /\ ret.kind = "return"
        /\ ClaimedRecords(arg, ret.value)

\* what the code does for C17: mappings it can walk within the recursion
\* limit give the claimed records, the chain nested beyond it RecursionError
C17_CodeBehaviour ==
    Extracted =>
        IF arg = DeepChain THEN ret = Raise("RecursionError")
        ELSE ret.kind = "return" /\ ClaimedRecords(arg, ret.value)

\* C17 witness: the extraction ran on the chain of mappings nested deeper
\* than the recursion limit allows, and ended in RecursionError
C17_Witness ==
    /\ Extracted
    /\ arg = DeepChain
    /\ ret.kind = "raise"

\* the extraction returned four records for the mapping three deep
C17_RecordsReached ==
    /\ Extracted
    /\ arg = Kg3
    /\ ret.kind = "return"
    /\ Len(ret.value) = 4

=============================================================================
